---- MODULE Spec2Model ----
(***************************************************************************)
(* Model of the legacy command-line bot of pandora                         *)
(* (src/src/pandora/bots/legacy.py): ChatPrompt, State, and the ChatBot    *)
(* session loop with its new / load / talk / regenerate / continue / edit  *)
(* / set-title / delete operations and the reply-stream consumer.          *)
(*                                                                         *)
(* Python objects are modelled by a heap: a ChatPrompt is a heap cell and  *)
(* State.user_prompt, State.chatgpt_prompt and the entries of              *)
(* State.user_prompts are addresses of cells, so that two references to    *)
(* the same object alias as they do in Python.  None is modelled by None   *)
(* (0) for ids and indexes and by NoText for a text.                       *)
(***************************************************************************)
EXTENDS Integers, Sequences, FiniteSets, TLC

\* ---------------------------------------------------------------- bounds
MaxPrompts == 5    \* ChatPrompt objects built in one session, the two defaults included
MaxEvents == 2     \* events of one reply stream
MaxTextLen == 2    \* characters of a reply text
MaxNodes == 4      \* nodes of a loaded path, the root included

\* ------------------------------------------------------------- encodings
None == 0
NoText == <<"None">>
Alphabet == {"a", "b"}
UserInputs == {<<"x">>}
MessageIds == {1, 2}
ConversationIds == {5, 6}
NodeChars == <<"r", "s", "t", "u", "v", "w">>
NodeId(i) == 10 + i
NodeText(i) == <<NodeChars[i]>>
StatusOK == 200
Statuses == {StatusOK, 500}
TitleLimit == 64

RECURSIVE TextsOfLen(_)
TextsOfLen(n) ==
    IF n = 0 THEN {<<>>}
    ELSE {Append(t, c) : t \in TextsOfLen(n - 1), c \in Alphabet}

Texts == UNION {TextsOfLen(n) : n \in 0..MaxTextLen}

VARIABLES
    pc,               \* where the session is: choice_conversation, prompt, stream, exception
    title, conversation_id, model_slug,       \* State fields
    user_prompt, chatgpt_prompt,              \* State fields: heap addresses
    user_prompts, edit_index,                 \* State fields
    heap,             \* the ChatPrompt objects
    nextUuid,         \* number of uuid4 values drawn so far, plus one
    op,               \* the command being processed, or processed last
    requests,         \* requests sent to the remote service by the command op
    first_prompt,     \* local of __talk
    p,                \* local of __print_reply
    sink,             \* text written by __print_reply for the current stream
    nevents,          \* number of events read from the current stream
    cumulative,       \* so far every event of the stream was an assistant event whose
                      \* text extends the text of the event before it
    lastEvent,        \* the last event consumed from the current stream
    systemId,         \* id of the last system event consumed from the current stream
    status,           \* status the remote service returned for the command op
    out,              \* console lines written by __load_conversation
    result,           \* the get_conversation response loaded last
    before,           \* the history and edit_index as they were when __talk was entered
    choice,           \* the answer to the menu of the edit selection processed last
    walk              \* the walk of __load_conversation to the root, step by step

stateVars == <<title, conversation_id, model_slug, user_prompt, chatgpt_prompt,
               user_prompts, edit_index>>
vars == <<pc, title, conversation_id, model_slug, user_prompt, chatgpt_prompt,
          user_prompts, edit_index, heap, nextUuid, op, requests,
          first_prompt, p, sink, nevents, cumulative, lastEvent, systemId, status,
          out, result, before, choice, walk>>

\* ------------------------------------------------------------ ChatPrompt
gen_message_id(n) == 100 + n

\* ChatPrompt(prompt, parent_id, message_id) with n the uuid counter:
\* the object built and the counter afterwards.
ChatPrompt(prompt, parent_id, message_id, n) ==
    LET n1 == IF parent_id # None THEN n ELSE n + 1
        n2 == IF message_id # None THEN n1 ELSE n1 + 1
    IN [obj |-> [prompt |-> prompt,
                 parent_id |-> IF parent_id # None THEN parent_id ELSE gen_message_id(n),
                 message_id |-> IF message_id # None THEN message_id ELSE gen_message_id(n1)],
        next |-> n2]

\* The two default arguments of State.__init__, evaluated once when the class
\* is defined: every State built without explicit prompts refers to them.
DefaultUserPrompt == 1
DefaultChatgptPrompt == 2

\* State(title, conversation_id, model_slug): addresses of the prompts of a new State.
StateUserPrompt == DefaultUserPrompt
StateChatgptPrompt == DefaultChatgptPrompt

\* A ChatPrompt that nothing refers to any more is reclaimed: its cell is
\* cleared, and its address is not used again.
Collected == [prompt |-> NoText, parent_id |-> None, message_id |-> None]
Collect(h, ups, up, cp) ==
    [a \in 1..Len(h) |->
        IF a \in {DefaultUserPrompt, DefaultChatgptPrompt, up, cp}
                 \cup {ups[i] : i \in 1..Len(ups)}
        THEN h[a] ELSE Collected]

NoEvent == [error |-> FALSE, has_message |-> FALSE, role |-> "none", text |-> <<>>,
            id |-> None, conversation_id |-> None]
NoResult == [title |-> "none", current_node |-> None, mapping |-> <<>>]

NoSnapshot == [user_prompts |-> <<>>, edit_index |-> None, conversation_id |-> None,
               prompt |-> NoText]
Snapshot(prompt) ==
    [user_prompts |-> [i \in 1..Len(user_prompts) |-> heap[user_prompts[i]]],
     edit_index |-> edit_index, conversation_id |-> conversation_id, prompt |-> prompt]

\* No walk is going on.
NoWalk == [mapping |-> <<>>, start |-> None, current |-> None, nodes |-> <<>>,
           visits |-> 0, done |-> FALSE]

IsPrefix(s, t) == Len(s) <= Len(t) /\ SubSeq(t, 1, Len(s)) = s

Request(name, cid, mid, pid) ==
    [name |-> name, conversation_id |-> cid, message_id |-> mid, parent_id |-> pid]

Init ==
    /\ pc = "choice_conversation"
    /\ title = "none" /\ conversation_id = None /\ model_slug = "none"
    /\ user_prompt = DefaultUserPrompt /\ chatgpt_prompt = DefaultChatgptPrompt
    /\ user_prompts = <<>> /\ edit_index = None
    /\ heap = <<ChatPrompt(NoText, None, None, 1).obj, ChatPrompt(NoText, None, None, 3).obj>>
    /\ nextUuid = 5
    /\ op = "run" /\ requests = <<>>
    /\ first_prompt = FALSE /\ p = 0 /\ sink = <<>> /\ nevents = 0 /\ cumulative = TRUE
    /\ lastEvent = NoEvent /\ systemId = None /\ status = None
    /\ out = <<>> /\ result = NoResult
    /\ before = NoSnapshot
    /\ choice = None
    /\ walk = NoWalk

\* ------------------------------------------------------- remote service
Models == {"m1"}
LoadedSlug == "m2"
GeneratedTitles == {"generated"}
NewTitles == {[text |-> "renamed", len |-> 7], [text |-> "too long", len |-> 65]}

\* The events a reply stream may carry.
Events ==
    {[error |-> TRUE, has_message |-> FALSE, role |-> "none", text |-> <<>>,
      id |-> None, conversation_id |-> None],
     [error |-> FALSE, has_message |-> FALSE, role |-> "none", text |-> <<>>,
      id |-> None, conversation_id |-> None]}
    \cup {[error |-> FALSE, has_message |-> TRUE, role |-> r, text |-> t,
           id |-> i, conversation_id |-> c] :
          r \in {"assistant", "system", "tool"}, t \in Texts,
          i \in MessageIds, c \in ConversationIds}

\* The events of the session: one text, one message id, one conversation id.
SessionEvents ==
    {ev \in Events :
        ev.has_message => /\ ev.text = <<"a">>
                          /\ ev.id = 1
                          /\ ev.conversation_id = 5}

\* The nodes a get_conversation response may carry below its root: a user
\* node, an assistant node with end_turn absent, null or set, a system node.
NodeKinds ==
    {[role |-> "user", end_turn |-> "absent", model_slug |-> "none"],
     [role |-> "system", end_turn |-> "absent", model_slug |-> "none"]}
    \cup {[role |-> "assistant", end_turn |-> e, model_slug |-> LoadedSlug] :
          e \in {"absent", "null", "true"}}
RootKinds ==
    {[role |-> "user", end_turn |-> "absent", model_slug |-> "none"],
     [role |-> "assistant", end_turn |-> "absent", model_slug |-> LoadedSlug]}

Node(i, kind) ==
    [id |-> NodeId(i), parent |-> IF i = 1 THEN None ELSE NodeId(i - 1),
     role |-> kind.role, end_turn |-> kind.end_turn, model_slug |-> kind.model_slug,
     text |-> NodeText(i)]

\* get_conversation responses: a single path of n nodes, current_node its leaf.
PathResults(n) ==
    {[title |-> "loaded", current_node |-> NodeId(n),
      mapping |-> [id \in {NodeId(i) : i \in 1..n} |->
                     Node(id - NodeId(0), IF id = NodeId(1) THEN rk ELSE ks[id - NodeId(0)])]] :
     rk \in RootKinds, ks \in [2..n -> NodeKinds]}

Results == UNION {PathResults(n) : n \in 1..MaxNodes}

\* The responses whose nodes below the root are user and assistant nodes in turn.
Alternating(r) ==
    \A id \in DOMAIN r.mapping :
        LET node == r.mapping[id]
        IN node.parent # None =>
               /\ node.end_turn = "absent"
               /\ node.role = IF (id - NodeId(0)) % 2 = 0 THEN "user" ELSE "assistant"
AlternatingResults == {r \in Results : Alternating(r) /\ r.mapping[NodeId(1)].role = "user"}

UserNodes(r) ==
    {id \in DOMAIN r.mapping : r.mapping[id].role = "user" /\ r.mapping[id].parent # None}

\* ------------------------------------------------- __load_conversation
\* The walk appending each node instead of prepending it.
RECURSIVE WalkAppending(_, _, _)
WalkAppending(mapping, current_node_id, nodes) ==
    LET node == mapping[current_node_id]
    IN IF node.parent = None THEN nodes
       ELSE WalkAppending(mapping, node.parent, Append(nodes, node))

\* The walk from current_node to the parentless root, prepending each node.
RECURSIVE Walk(_, _, _)
Walk(mapping, current_node_id, nodes) ==
    LET node == mapping[current_node_id]
    IN IF node.parent = None THEN nodes
       ELSE Walk(mapping, node.parent, <<node>> \o nodes)

Line(kind, text) == [kind |-> kind, text |-> text]
BlankLine == Line("blank", <<>>)

\* merge collapsed to a boolean: an absent end_turn counts as a null one.
MergeAfterBoolean(node) == node.end_turn # "true"

\* merge as the assistant branch sets it.
MergeAfter(node) == node.end_turn = "null"

\* One iteration of the loop over the nodes.
LoadNode(acc, node) ==
    LET slug == IF node.model_slug # "none" THEN node.model_slug ELSE acc.model_slug
    IN IF node.role = "user" THEN
           LET cp == ChatPrompt(node.text, node.parent, None, acc.next)
               h1 == Append(acc.heap, cp.obj)
               h2 == [h1 EXCEPT ![StateUserPrompt] =
                        [prompt |-> node.text, parent_id |-> node.parent, message_id |-> node.id]]
               o1 == acc.out \o <<Line("You:", <<>>), Line("text", node.text)>>
           IN [heap |-> h2, user_prompts |-> Append(acc.user_prompts, Len(h1)),
               model_slug |-> slug, merge |-> acc.merge, next |-> cp.next,
               out |-> IF acc.merge THEN o1 ELSE Append(o1, BlankLine)]
       ELSE IF node.role = "assistant" THEN
           LET h2 == [acc.heap EXCEPT ![StateChatgptPrompt] =
                        [prompt |-> node.text, parent_id |-> node.parent, message_id |-> node.id]]
               o1 == (IF acc.merge THEN acc.out ELSE Append(acc.out, Line("ChatGPT:", <<>>)))
                     \o <<Line("text", node.text)>>
               merge == MergeAfter(node)
           IN [heap |-> h2, user_prompts |-> acc.user_prompts,
               model_slug |-> slug, merge |-> merge, next |-> acc.next,
               out |-> IF merge THEN o1 ELSE Append(o1, BlankLine)]
       ELSE [acc EXCEPT !.model_slug = slug]

RECURSIVE LoadNodes(_, _, _)
LoadNodes(acc, nodes, i) ==
    IF i > Len(nodes) THEN acc ELSE LoadNodes(LoadNode(acc, nodes[i]), nodes, i + 1)

\* __load_conversation(cid) with the response r, for a truthy cid.
load_conversation(cid, r) ==
    LET nodes == Walk(r.mapping, r.current_node, <<>>)
        acc == LoadNodes([heap |-> heap, user_prompts |-> <<>>, model_slug |-> "none",
                          merge |-> FALSE, next |-> nextUuid, out |-> <<>>], nodes, 1)
    IN /\ Len(heap) + Cardinality(UserNodes(r)) <= MaxPrompts
       /\ conversation_id' = cid
       /\ title' = r.title
       /\ model_slug' = acc.model_slug
       /\ user_prompt' = StateUserPrompt
       /\ chatgpt_prompt' = StateChatgptPrompt
       /\ user_prompts' = acc.user_prompts
       /\ edit_index' = None
       /\ heap' = Collect(acc.heap, acc.user_prompts, StateUserPrompt, StateChatgptPrompt)
       /\ nextUuid' = acc.next
       /\ out' = acc.out
       /\ result' = r
       /\ requests' = <<Request("get_conversation", cid, None, None)>>
       /\ pc' = "prompt"
       /\ first_prompt' = FALSE /\ p' = 0 /\ sink' = <<>> /\ nevents' = 0 /\ cumulative' = TRUE
       /\ lastEvent' = NoEvent /\ systemId' = None /\ status' = None
       /\ choice' = None /\ UNCHANGED walk

\* __new_conversation with the model chosen.
new_conversation(slug) ==
    /\ conversation_id' = None
    /\ title' = "New Chat"
    /\ model_slug' = slug
    /\ user_prompt' = StateUserPrompt
    /\ chatgpt_prompt' = StateChatgptPrompt
    /\ user_prompts' = <<>>
    /\ edit_index' = None
    /\ requests' = <<Request("list_models", None, None, None)>>
    /\ pc' = "prompt"
    /\ out' = <<>> /\ result' = NoResult
    /\ first_prompt' = FALSE /\ p' = 0 /\ sink' = <<>> /\ nevents' = 0 /\ cumulative' = TRUE
    /\ lastEvent' = NoEvent /\ systemId' = None /\ status' = None
    /\ choice' = None /\ UNCHANGED walk
    /\ heap' = Collect(heap, <<>>, StateUserPrompt, StateChatgptPrompt)
    /\ UNCHANGED nextUuid

\* The logs of the last command are cleared.
ClearLogs ==
    /\ out' = <<>> /\ result' = NoResult
    /\ first_prompt' = FALSE /\ p' = 0 /\ sink' = <<>> /\ nevents' = 0 /\ cumulative' = TRUE
    /\ lastEvent' = NoEvent /\ systemId' = None /\ status' = None
    /\ UNCHANGED walk

\* A command that neither loads nor streams nor asks for an edit selection.
NoOutput == ClearLogs /\ choice' = None

\* run(): the conversation menu answers with a conversation to load.
RunLoad(cid, r) ==
    /\ pc = "choice_conversation"
    /\ op' = "load" /\ before' = NoSnapshot
    /\ load_conversation(cid, r)

\* run(): the conversation menu answers 'c', or there is no conversation.
RunNew(slug) ==
    /\ pc = "choice_conversation"
    /\ op' = "new" /\ before' = NoSnapshot
    /\ new_conversation(slug)

\* /new
CmdNew(slug) ==
    /\ pc = "prompt"
    /\ op' = "new" /\ before' = NoSnapshot
    /\ new_conversation(slug)

\* /reload
CmdReload(r) ==
    /\ pc = "prompt"
    /\ op' = "reload" /\ before' = NoSnapshot
    /\ IF conversation_id = None
       THEN /\ requests' = <<>> /\ NoOutput
            /\ UNCHANGED <<pc, stateVars, heap, nextUuid>>
       ELSE load_conversation(conversation_id, r)

\* /select
CmdSelect ==
    /\ pc = "prompt"
    /\ op' = "select" /\ before' = NoSnapshot
    /\ pc' = "choice_conversation"
    /\ requests' = <<Request("list_conversations", None, None, None)>>
    /\ NoOutput
    /\ UNCHANGED <<stateVars, heap, nextUuid>>

\* ------------------------------------------------------- __print_reply
\* Slice without the offset: the whole cumulative text is emitted again.
SliceWhole(text, from) == text

\* text[p:] of a Python string.
Slice(text, from) ==
    IF from >= Len(text) THEN <<>> ELSE SubSeq(text, from + 1, Len(text))

\* The check of the status left out: the stream is consumed whatever the status.
PrintReplyBeginUnchecked(st) ==
    /\ pc' = "stream"
    /\ status' = st
    /\ p' = 0 /\ sink' = <<>> /\ nevents' = 0 /\ cumulative' = TRUE
    /\ lastEvent' = NoEvent /\ systemId' = None
    /\ out' = <<>> /\ result' = NoResult
    /\ choice' = None /\ UNCHANGED walk

\* The check of the status, before the loop: with a status other than 200
\* the exception is built from next(generator), which reads the first event
\* of the stream when there is one.
PrintReplyBegin(st) ==
    /\ pc' = IF st # StatusOK THEN "exception" ELSE "stream"
    /\ status' = st
    /\ nevents' \in (IF st # StatusOK THEN {0, 1} ELSE {0})
    /\ p' = 0 /\ sink' = <<>> /\ cumulative' = TRUE
    /\ lastEvent' = NoEvent /\ systemId' = None
    /\ out' = <<>> /\ result' = NoResult
    /\ choice' = None /\ UNCHANGED walk

\* EventText emitting the text of an event of any role.
EventTextAnyRole(ev, from) == Slice(ev.text, from)

\* The text one event adds to the sink: only an assistant event adds any.
EventText(ev, from) == IF ev.role = "assistant" THEN Slice(ev.text, from) ELSE <<>>

\* EventHeap leaving the message id of the assistant prompt alone.
EventHeapKeepsMessageId(h, ev) ==
    LET h1 == [h EXCEPT ![chatgpt_prompt] =
                 [prompt |-> ev.text, parent_id |-> h[user_prompt].message_id,
                  message_id |-> h[chatgpt_prompt].message_id]]
    IN IF ev.role = "system" THEN [h1 EXCEPT ![user_prompt].parent_id = ev.id] ELSE h1

\* EventHeap re-parenting the user prompt on an event of any role.
EventHeapReparentsAlways(h, ev) ==
    [h EXCEPT ![chatgpt_prompt] =
                 [prompt |-> ev.text, parent_id |-> h[user_prompt].message_id,
                  message_id |-> ev.id],
              ![user_prompt].parent_id = ev.id]

\* The heap after the bookkeeping of one event with a message.
EventHeap(h, ev) ==
    LET h1 == [h EXCEPT ![chatgpt_prompt] =
                 [prompt |-> ev.text, parent_id |-> h[user_prompt].message_id,
                  message_id |-> ev.id]]
    IN IF ev.role = "system" THEN [h1 EXCEPT ![user_prompt].parent_id = ev.id] ELSE h1

\* The conversation id the state holds after an event with a message.
EventConversationId(ev) == ev.conversation_id

\* One iteration of the loop over the generator.
StreamEvent(ev) ==
    /\ pc = "stream"
    /\ nevents < MaxEvents
    /\ nevents' = nevents + 1
    /\ cumulative' = (/\ cumulative /\ ev.has_message /\ ev.role = "assistant"
                      /\ IsPrefix(lastEvent.text, ev.text))
    /\ lastEvent' = ev
    /\ systemId' = IF ev.has_message /\ ev.role = "system" THEN ev.id ELSE systemId
    /\ IF ev.error \/ ~ev.has_message
       THEN /\ pc' = "exception"
            /\ UNCHANGED <<stateVars, heap, p, sink>>
       ELSE LET text == EventText(ev, p)
            IN /\ p' = p + Len(text)
               /\ conversation_id' = EventConversationId(ev)
               /\ heap' = EventHeap(heap, ev)
               /\ sink' = sink \o text
               /\ UNCHANGED <<pc, title, model_slug, user_prompt, chatgpt_prompt,
                              user_prompts, edit_index>>
    /\ UNCHANGED <<nextUuid, op, requests, first_prompt, status, out, result, before,
                   choice, walk>>

\* TitleRequests asking for a title on every talk.
TitleRequestsAlways(first) ==
    <<Request("gen_conversation_title", conversation_id,
              heap[chatgpt_prompt].message_id, None)>>

\* The title requests __talk sends once __print_reply has returned.
TitleRequests(first) ==
    IF first
    THEN <<Request("gen_conversation_title", conversation_id,
                   heap[chatgpt_prompt].message_id, None)>>
    ELSE <<>>

\* The generator is exhausted: __print_reply returns and its caller goes on.
StreamEnd(new_title) ==
    /\ pc = "stream"
    /\ pc' = "prompt"
    /\ IF op = "talk"
       THEN /\ user_prompts' = Append(user_prompts, user_prompt)
            /\ requests' = requests \o TitleRequests(first_prompt)
            /\ title' = IF first_prompt THEN new_title ELSE title
       ELSE UNCHANGED <<user_prompts, requests, title>>
    /\ UNCHANGED <<conversation_id, model_slug, user_prompt, chatgpt_prompt, edit_index,
                   heap, nextUuid, op, first_prompt, p, sink, nevents, cumulative, lastEvent,
                   systemId, status, out, result, before, choice, walk>>

\* --------------------------------------------------------------- __talk
\* The parent of the new user prompt.
TalkParent ==
    IF edit_index # None
    THEN heap[user_prompts[edit_index]].parent_id
    ELSE heap[chatgpt_prompt].message_id

\* TalkHistory keeping the edited entry.
TalkHistoryKeepsEdited ==
    IF edit_index # None THEN SubSeq(user_prompts, 1, edit_index) ELSE user_prompts

\* The history __talk keeps before the request is sent.
TalkHistory ==
    IF edit_index # None THEN SubSeq(user_prompts, 1, edit_index - 1) ELSE user_prompts

\* edit_index surviving the talk.
TalkEditIndexKept == edit_index

\* edit_index as __talk leaves it, whether or not it was set.
TalkEditIndex == None

Talk(prompt, st) ==
    /\ pc = "prompt"
    /\ Len(heap) < MaxPrompts
    /\ op' = "talk" /\ before' = Snapshot(prompt)
    /\ first_prompt' = (conversation_id = None)
    /\ IF edit_index # None /\ edit_index > Len(user_prompts)
       THEN \* IndexError
            /\ pc' = "exception"
            /\ requests' = <<>>
            /\ p' = 0 /\ sink' = <<>> /\ nevents' = 0 /\ cumulative' = TRUE
            /\ lastEvent' = NoEvent /\ systemId' = None /\ status' = None
            /\ out' = <<>> /\ result' = NoResult
            /\ choice' = None
            /\ UNCHANGED <<stateVars, heap, nextUuid, walk>>
       ELSE LET cp == ChatPrompt(prompt, TalkParent, None, nextUuid)
            IN /\ heap' = Collect(Append(heap, cp.obj), TalkHistory, Len(heap) + 1,
                                  chatgpt_prompt)
               /\ nextUuid' = cp.next
               /\ user_prompt' = Len(heap) + 1
               /\ user_prompts' = TalkHistory
               /\ edit_index' = TalkEditIndex
               /\ requests' = <<Request("talk", conversation_id, cp.obj.message_id,
                                        cp.obj.parent_id)>>
               /\ PrintReplyBegin(st)
               /\ UNCHANGED <<title, conversation_id, model_slug, chatgpt_prompt>>

\* The guard left out.
NotCreatedNever == FALSE

\* The guard of regenerate, continue, set-title and delete.
NotCreated == conversation_id = None

\* The guard fails: the message is printed and the command returns.
Skipped ==
    /\ requests' = <<>>
    /\ NoOutput
    /\ UNCHANGED <<pc, stateVars, heap, nextUuid>>

\* /regen
RegenerateReply(st) ==
    /\ pc = "prompt"
    /\ op' = "regenerate" /\ before' = NoSnapshot
    /\ IF NotCreated THEN Skipped
       ELSE /\ requests' = <<Request("regenerate_reply", conversation_id,
                                     heap[user_prompt].message_id,
                                     heap[user_prompt].parent_id)>>
            /\ first_prompt' = FALSE
            /\ PrintReplyBegin(st)
            /\ UNCHANGED <<stateVars, heap, nextUuid>>

\* /continue
Continue(st) ==
    /\ pc = "prompt"
    /\ op' = "continue" /\ before' = NoSnapshot
    /\ IF NotCreated THEN Skipped
       ELSE /\ requests' = <<Request("goon", conversation_id,
                                     heap[chatgpt_prompt].message_id, None)>>
            /\ first_prompt' = FALSE
            /\ PrintReplyBegin(st)
            /\ UNCHANGED <<stateVars, heap, nextUuid>>

\* /title
SetConversationTitle(new_title, ok) ==
    /\ pc = "prompt"
    /\ op' = "set_title" /\ before' = NoSnapshot
    /\ IF NotCreated THEN Skipped
       ELSE /\ NoOutput
            /\ IF new_title.len > TitleLimit
               THEN requests' = <<>> /\ UNCHANGED title
               ELSE /\ requests' = <<Request("set_conversation_title", conversation_id,
                                             None, None)>>
                    /\ title' = IF ok THEN new_title.text ELSE title
            /\ UNCHANGED <<pc, conversation_id, model_slug, user_prompt, chatgpt_prompt,
                           user_prompts, edit_index, heap, nextUuid>>

\* /del: the guard, the confirmation, the request, and run() again on success.
DelConversation(sure, ok) ==
    /\ pc = "prompt"
    /\ op' = "delete" /\ before' = NoSnapshot
    /\ IF NotCreated THEN Skipped
       ELSE /\ NoOutput
            /\ requests' = IF sure
                           THEN <<Request("del_conversation", conversation_id, None, None)>>
                           ELSE <<>>
            /\ pc' = IF sure /\ ok THEN "choice_conversation" ELSE pc
            /\ UNCHANGED <<stateVars, heap, nextUuid>>

\* The menu offering one number too many.
EditChoicesOneMore == 0..(Len(user_prompts) + 1)

\* The answers the menu of the edit selection accepts: a number of the
\* history, or None for 'c'.
EditChoices == 0..Len(user_prompts)

\* /edit: answer is a number of the menu, or None for 'c' (and when the
\* history is empty, where no menu is shown).
EditChoice(answer) ==
    /\ pc = "prompt"
    /\ op' = "edit" /\ before' = NoSnapshot
    /\ answer \in EditChoices
    /\ edit_index' = IF user_prompts = <<>> \/ answer = None THEN edit_index ELSE answer
    /\ choice' = answer
    /\ requests' = <<>>
    /\ ClearLogs
    /\ UNCHANGED <<pc, title, conversation_id, model_slug, user_prompt, chatgpt_prompt,
                   user_prompts, heap, nextUuid>>

\* ---------------------------------------------------------- the session
Next ==
    \/ \E cid \in ConversationIds, r \in AlternatingResults : RunLoad(cid, r)
    \/ \E slug \in Models : RunNew(slug)
    \/ \E slug \in Models : CmdNew(slug)
    \/ \E r \in AlternatingResults : CmdReload(r)
    \/ CmdSelect
    \/ \E prompt \in UserInputs, st \in Statuses : Talk(prompt, st)
    \/ \E st \in Statuses : RegenerateReply(st)
    \/ \E st \in Statuses : Continue(st)
    \/ \E t \in NewTitles, ok \in BOOLEAN : SetConversationTitle(t, ok)
    \/ \E sure \in BOOLEAN, ok \in BOOLEAN : DelConversation(sure, ok)
    \/ \E answer \in 0..(MaxPrompts + 1) : EditChoice(answer)
    \/ \E ev \in SessionEvents : StreamEvent(ev)
    \/ \E t \in GeneratedTitles : StreamEnd(t)

Spec == Init /\ [][Next]_vars

\* The first talk of a new conversation and the regenerate and continue
\* commands after it, on every reply stream.
NextReply ==
    \/ \E slug \in Models : RunNew(slug)
    \/ \E prompt \in UserInputs, st \in Statuses :
           user_prompts = <<>> /\ Talk(prompt, st)
    \/ \E st \in Statuses : RegenerateReply(st)
    \/ \E st \in Statuses : Continue(st)
    \/ \E ev \in Events : StreamEvent(ev)
    \/ \E t \in GeneratedTitles : StreamEnd(t)

SpecReply == Init /\ [][NextReply]_vars

\* The loader alone, on every response.
NextLoader == \E cid \in ConversationIds, r \in Results : RunLoad(cid, r)

SpecLoader == Init /\ [][NextLoader]_vars

\* -------------------------------- the walk of __load_conversation alone
\* The node maps the walk is run on: nodes 1..n, each with no parent or with
\* any node of the map as its parent (a cycle included), and any node as
\* current_node.
WalkNode(i, parent) ==
    [id |-> NodeId(i), parent |-> parent, role |-> "user", end_turn |-> "absent",
     model_slug |-> "none", text |-> NodeText(i)]

WalkMappings(n) ==
    LET ids == {NodeId(i) : i \in 1..n}
    IN {[id \in ids |-> WalkNode(id - NodeId(0), ps[id])] :
        ps \in [ids -> ids \cup {None}]}

\* The walk may go on for ever: the model follows it for WalkCap iterations.
WalkCap == 2 * MaxNodes

\* Line 241 reached: the State is new, the response is there, nodes is empty.
InitWalk ==
    /\ pc = "load"
    /\ title = "none" /\ conversation_id \in ConversationIds /\ model_slug = "none"
    /\ user_prompt = StateUserPrompt /\ chatgpt_prompt = StateChatgptPrompt
    /\ user_prompts = <<>> /\ edit_index = None
    /\ heap = <<ChatPrompt(NoText, None, None, 1).obj, ChatPrompt(NoText, None, None, 3).obj>>
    /\ nextUuid = 5
    /\ op = "load"
    /\ requests = <<Request("get_conversation", conversation_id, None, None)>>
    /\ first_prompt = FALSE /\ p = 0 /\ sink = <<>> /\ nevents = 0 /\ cumulative = TRUE
    /\ lastEvent = NoEvent /\ systemId = None /\ status = None
    /\ out = <<>> /\ result = NoResult
    /\ before = NoSnapshot
    /\ choice = None
    /\ \E n \in 1..MaxNodes : \E m \in WalkMappings(n) : \E c \in DOMAIN m :
           walk = [mapping |-> m, start |-> c, current |-> c, nodes |-> <<>>,
                   visits |-> 0, done |-> FALSE]

\* One iteration appending the node instead of inserting it at the front.
WalkIterationAppending(w) ==
    LET node == w.mapping[w.current]
    IN IF node.parent = None
       THEN [w EXCEPT !.visits = @ + 1, !.done = TRUE]
       ELSE [w EXCEPT !.visits = @ + 1, !.nodes = Append(@, node),
                      !.current = node.parent]

\* One iteration of the while loop: break at a parentless node, else insert
\* the node at the front and go to its parent.
WalkIteration(w) ==
    LET node == w.mapping[w.current]
    IN IF node.parent = None
       THEN [w EXCEPT !.visits = @ + 1, !.done = TRUE]
       ELSE [w EXCEPT !.visits = @ + 1, !.nodes = <<node>> \o @,
                      !.current = node.parent]

WalkStep ==
    /\ pc = "load"
    /\ ~walk.done
    /\ walk.visits < WalkCap
    /\ walk' = WalkIteration(walk)
    /\ UNCHANGED <<pc, stateVars, heap, nextUuid, op, requests, first_prompt, p, sink,
                   nevents, cumulative, lastEvent, systemId, status, out, result, before,
                   choice>>

NextWalk == WalkStep

SpecWalk == InitWalk /\ [][NextWalk]_vars

\* =============================================================== claims
StreamOps == {"talk", "regenerate", "continue"}
InStream == op \in StreamOps /\ pc \in {"stream", "prompt"} /\ status = StatusOK
TalkDone == op = "talk" /\ pc = "prompt"

\* C1: when every event consumed so far from a reply stream with status 200
\* is an assistant event whose text extends the text of the event before it,
\* the text written to the sink is exactly the text of the last event: at the
\* end of the stream it is the final string S, nothing repeated or skipped.
C1_DeltaReconstruction ==
    (InStream /\ cumulative) => (sink = lastEvent.text /\ p = Len(lastEvent.text))

C1_Witness ==
    /\ InStream /\ pc = "prompt" /\ cumulative
    /\ nevents = MaxEvents
    /\ Len(lastEvent.text) = MaxTextLen
    /\ sink = lastEvent.text

\* C2 as claimed: after an edit selection of k and a talk that completes, the
\* history is the former entries 1..k-1 followed by one entry with the new
\* text and the parent_id the old entry k had, for every reply stream.
EditSplice(parent) ==
    LET k == before.edit_index
    IN /\ Len(user_prompts) = k
       /\ \A i \in 1..(k - 1) : heap[user_prompts[i]] = before.user_prompts[i]
       /\ heap[user_prompts[k]].prompt = before.prompt
       /\ heap[user_prompts[k]].parent_id = parent

C2_EditSpliceAnyStream ==
    (TalkDone /\ before.edit_index # None) =>
        EditSplice(before.user_prompts[before.edit_index].parent_id)

\* C2 as amended: the new entry's parent_id is the old entry k's parent_id
\* when the reply stream carried no system event, and the message id of the
\* last system event of the stream otherwise.
C2_EditSplice ==
    (TalkDone /\ before.edit_index # None) =>
        EditSplice(IF systemId = None
                   THEN before.user_prompts[before.edit_index].parent_id
                   ELSE systemId)

C2_Witness ==
    /\ TalkDone /\ before.edit_index = 2 /\ Len(before.user_prompts) >= 2
    /\ systemId # None
    /\ Len(user_prompts) = 2

\* C3: a talk entered with conversation_id unset that completes sends exactly
\* one gen_conversation_title request, after the stream has been consumed (it
\* is the last request of the talk and none is sent while the stream is read);
\* a talk entered with conversation_id set, and a talk that fails, send none.
TitleRequestCount ==
    Cardinality({i \in 1..Len(requests) : requests[i].name = "gen_conversation_title"})

C3_FirstTurnTitling ==
    /\ (op = "talk" /\ pc \in {"stream", "exception"}) => TitleRequestCount = 0
    /\ (TalkDone /\ before.conversation_id # None) => TitleRequestCount = 0
    /\ (TalkDone /\ before.conversation_id = None) =>
           /\ TitleRequestCount = 1
           /\ requests[Len(requests)].name = "gen_conversation_title"
    /\ op # "talk" => TitleRequestCount = 0

C3_Witness ==
    /\ TalkDone /\ before.conversation_id = None /\ nevents > 0
    /\ TitleRequestCount = 1

\* C4: regenerate, continue, set-title and delete dispatched while
\* conversation_id is unset send no request and change no field of the state
\* nor of any prompt; the session is back at its prompt.
GuardedOps == {"regenerate", "continue", "set_title", "delete"}

C4_PreconditionGuard ==
    [][(pc = "prompt" /\ conversation_id = None /\ op' \in GuardedOps) =>
          (/\ requests' = <<>>
           /\ pc' = "prompt"
           /\ heap' = heap
           /\ UNCHANGED stateVars)]_vars

C4_Witness ==
    /\ op \in GuardedOps /\ pc = "prompt" /\ conversation_id = None
    /\ requests = <<>>
    /\ user_prompts # <<>>

\* C5 as claimed: a talk entered with conversation_id unset that fails (non-200
\* status, error event, event without message) leaves conversation_id unset.
C5_FailedTalkNotEstablished ==
    (op = "talk" /\ pc = "exception" /\ before.conversation_id = None) =>
        conversation_id = None

\* C6 as claimed: the prompts of the state built by start-new carry no text
\* and no id coming from an earlier conversation (their ids are locally
\* generated), and the first talk of a new conversation sends a parent_id
\* that is a locally generated root marker.
IsLocalId(id) == id > gen_message_id(0)

C6_FreshState ==
    /\ (op = "new" /\ pc = "prompt") =>
           \A a \in {user_prompt, chatgpt_prompt} :
               /\ heap[a].prompt = NoText
               /\ IsLocalId(heap[a].message_id)
               /\ IsLocalId(heap[a].parent_id)
    /\ (op = "talk" /\ requests # <<>> /\ before.conversation_id = None
        /\ before.user_prompts = <<>>) =>
           IsLocalId(requests[1].parent_id)

\* The path of a response, root first, and what was loaded from it.
Loaded == op \in {"load", "reload"} /\ pc = "prompt" /\ result # NoResult
PathLen(r) == r.current_node - NodeId(0)
PathNode(r, i) == r.mapping[NodeId(i)]
AlternatingPath(r) ==
    \A i \in 1..PathLen(r) :
        /\ PathNode(r, i).role \in {"user", "assistant"}
        /\ i > 1 => PathNode(r, i).role # PathNode(r, i - 1).role

RECURSIVE UserTextsFrom(_, _)
UserTextsFrom(r, i) ==
    IF i > PathLen(r) THEN <<>>
    ELSE (IF PathNode(r, i).role = "user" THEN <<PathNode(r, i).text>> ELSE <<>>)
         \o UserTextsFrom(r, i + 1)

HistoryTexts == [i \in 1..Len(user_prompts) |-> heap[user_prompts[i]].prompt]

\* C7 as claimed: loading a path of alternating user and assistant nodes,
\* whichever role its root has, gives a history with one entry per user node
\* of the path, in root-to-leaf order, with the texts of those nodes.
C7_LoaderRoundTripWholePath ==
    (Loaded /\ AlternatingPath(result)) => HistoryTexts = UserTextsFrom(result, 1)

\* C7 as amended: one entry per user node of the path below its parentless
\* root, in root-to-leaf order, with the texts of those nodes.
C7_LoaderRoundTrip ==
    (Loaded /\ AlternatingPath(result)) => HistoryTexts = UserTextsFrom(result, 2)

C7_Witness ==
    /\ Loaded /\ AlternatingPath(result)
    /\ PathLen(result) >= 3
    /\ PathNode(result, 1).role = "user"
    /\ Len(user_prompts) >= 1

\* The place in the console output of the text of node i.
TextLine(r, i) == Line("text", PathNode(r, i).text)
LineOf(r, i) == CHOOSE j \in 1..Len(out) : out[j] = TextLine(r, i)
AssistantPairs(r) ==
    {i \in 2..(PathLen(r) - 1) :
        PathNode(r, i).role = "assistant" /\ PathNode(r, i + 1).role = "assistant"}

\* C8: of two consecutive assistant nodes, when the first has end_turn null
\* the second text follows the first with no blank line and no header; when
\* end_turn is absent or set, a blank line and the ChatGPT: header are between.
C8_MergeSoftBreak ==
    Loaded =>
        \A i \in AssistantPairs(result) :
            LET j == LineOf(result, i)
            IN IF PathNode(result, i).end_turn = "null"
               THEN out[j + 1] = TextLine(result, i + 1)
               ELSE /\ out[j + 1] = BlankLine
                    /\ out[j + 2] = Line("ChatGPT:", <<>>)
                    /\ out[j + 3] = TextLine(result, i + 1)

C8_Witness ==
    /\ Loaded
    /\ \E i \in AssistantPairs(result) : PathNode(result, i).end_turn = "null"
    /\ \E i \in AssistantPairs(result) : PathNode(result, i).end_turn = "absent"

\* C9 as claimed: an assistant node followed by a user node is rendered with a
\* blank line between them, also when the assistant node has end_turn null,
\* and the first assistant node after a user node gets its own header.
C9_MergeFlagReset ==
    Loaded =>
        \A i \in 2..(PathLen(result) - 1) :
            LET j == LineOf(result, i)
            IN /\ (PathNode(result, i).role = "assistant"
                   /\ PathNode(result, i + 1).role = "user") =>
                      (out[j + 1] = BlankLine /\ out[j + 2] = Line("You:", <<>>))
               /\ (PathNode(result, i).role = "user"
                   /\ PathNode(result, i + 1).role = "assistant") =>
                      \E k \in (j + 1)..(Len(out) - 1) :
                          /\ out[k] = Line("ChatGPT:", <<>>)
                          /\ out[k + 1] = TextLine(result, i + 1)

\* C10 as claimed: after a talk, regenerate or continue fails (non-200 status,
\* error event, event without message) the session loop is still alive.
TurnFailed ==
    \/ status \notin {None, StatusOK}
    \/ lastEvent.error
    \/ (nevents > 0 /\ ~lastEvent.has_message)

C10_TurnFailureKeepsSession ==
    (op \in StreamOps /\ TurnFailed) => pc \in {"prompt", "stream"}

\* C11: when talk, regenerate or continue is answered with a status other than
\* 200, __print_reply raises at once: nothing was written to the sink,
\* conversation_id and every field of the assistant prompt are as they were
\* before the command, user_prompt.parent_id is the parent sent with the
\* request (for regenerate and continue: the one it had before), and at most
\* the first event of the stream was read.
NonOkResponse == pc = "prompt" /\ op' \in StreamOps /\ status' \notin {None, StatusOK}

C11_NonOkResponse ==
    [][NonOkResponse =>
          (/\ pc' = "exception"
           /\ sink' = <<>>
           /\ conversation_id' = conversation_id
           /\ chatgpt_prompt' = chatgpt_prompt
           /\ heap'[chatgpt_prompt'] = heap[chatgpt_prompt]
           /\ heap'[user_prompt'].parent_id =
                  (IF op' = "talk" THEN requests'[1].parent_id
                                   ELSE heap[user_prompt].parent_id)
           /\ (op' # "talk" => user_prompt' = user_prompt)
           /\ nevents' <= 1)]_vars

C11_Witness ==
    /\ op = "regenerate" /\ pc = "exception" /\ status = 500
    /\ nevents = 1 /\ sink = <<>>
    /\ conversation_id # None

\* C12 as claimed: when a talk fails (non-200 status, error event, event
\* without message), the history is the sequence it was when the talk was
\* invoked, whether edit_index was unset or set.
HistoryEntries == [i \in 1..Len(user_prompts) |-> heap[user_prompts[i]]]

C12_FailedTalkKeepsHistory ==
    (op = "talk" /\ pc = "exception") => HistoryEntries = before.user_prompts

\* C13 as claimed: after the edit selection ends with cancel, or is invoked on
\* an empty history, edit_index is unset whatever it was before; after it ends
\* with the number k, edit_index = k.
C13_EditCancelUnsets ==
    (op = "edit" /\ pc = "prompt") => edit_index = choice

\* C14: edit_index becomes set only in the edit selection; from the moment a
\* talk is dispatched and as long as it runs or has failed edit_index is unset;
\* no step of regenerate or continue changes edit_index.
C14_EditingSubState ==
    [][/\ (edit_index' # None /\ edit_index' # edit_index) =>
              (pc = "prompt" /\ op' = "edit")
       /\ op' = "talk" => edit_index' = None
       /\ op' \in {"regenerate", "continue"} => edit_index' = edit_index]_vars

C14_Witness ==
    /\ op = "talk" /\ pc \in {"prompt", "exception"}
    /\ before.edit_index # None /\ edit_index = None
    /\ before.user_prompts # <<>>

\* C15 as claimed: the history entry appended for a user node of the loaded
\* path (the nodes below the parentless root) has that node's id as
\* message_id and that node's parent as parent_id, and after the load the
\* active user prompt and the assistant prompt carry the id and the parent of
\* the last user node and of the last assistant node of the path.
RECURSIVE NodesOfRole(_, _, _)
NodesOfRole(r, role, i) ==
    IF i > PathLen(r) THEN <<>>
    ELSE (IF PathNode(r, i).role = role THEN <<PathNode(r, i)>> ELSE <<>>)
         \o NodesOfRole(r, role, i + 1)

CarriesIds(a, nodes) ==
    nodes # <<>> =>
        /\ heap[a].message_id = nodes[Len(nodes)].id
        /\ heap[a].parent_id = nodes[Len(nodes)].parent

C15_LoaderIdCapture ==
    Loaded =>
        LET users == NodesOfRole(result, "user", 2)
        IN /\ Len(user_prompts) = Len(users)
           /\ \A i \in 1..Len(users) :
                  /\ heap[user_prompts[i]].message_id = users[i].id
                  /\ heap[user_prompts[i]].parent_id = users[i].parent
           /\ CarriesIds(user_prompt, users)
           /\ CarriesIds(chatgpt_prompt, NodesOfRole(result, "assistant", 2))

\* C16 as claimed: after a reply stream with status 200 and at least one event
\* was consumed to its end without failure, the text of the assistant prompt
\* is the text written to the sink, whatever the roles of the events were; its
\* message_id is the id of the last event, its parent_id is
\* user_prompt.message_id and conversation_id is that of the last event.
StreamConsumed == InStream /\ pc = "prompt" /\ nevents > 0

AssistantLinkage ==
    /\ heap[chatgpt_prompt].message_id = lastEvent.id
    /\ heap[chatgpt_prompt].parent_id = heap[user_prompt].message_id
    /\ conversation_id = lastEvent.conversation_id

C16_AssistantTurnAnyMix ==
    StreamConsumed => (heap[chatgpt_prompt].prompt = sink /\ AssistantLinkage)

\* C16: after such a stream the text of the assistant prompt is the text of
\* the last event, of whatever role; it is the text written to the sink when
\* every event was an assistant event extending the text of the one before;
\* the linkage is the one of the last event.
C16_AssistantTurnAtStreamEnd ==
    StreamConsumed =>
        /\ heap[chatgpt_prompt].prompt = lastEvent.text
        /\ cumulative => heap[chatgpt_prompt].prompt = sink
        /\ AssistantLinkage

C16_Witness ==
    /\ StreamConsumed /\ nevents = MaxEvents
    /\ lastEvent.role = "system" /\ sink # <<>>
    /\ heap[chatgpt_prompt].prompt # sink

\* C17: an event whose role is not assistant (an event without a message
\* included) writes nothing to the sink and leaves p alone; a system event
\* sets user_prompt.parent_id to its message id; an event of any other role
\* leaves user_prompt.parent_id alone; no event changes the text or the
\* message_id of user_prompt.
EventStep == pc = "stream" /\ nevents' = nevents + 1

C17_RoleHandling ==
    [][EventStep =>
          (/\ lastEvent'.role # "assistant" => (sink' = sink /\ p' = p)
           /\ lastEvent'.role = "system" =>
                  heap'[user_prompt].parent_id = lastEvent'.id
           /\ lastEvent'.role # "system" =>
                  heap'[user_prompt].parent_id = heap[user_prompt].parent_id
           /\ user_prompt' = user_prompt
           /\ heap'[user_prompt].prompt = heap[user_prompt].prompt
           /\ heap'[user_prompt].message_id = heap[user_prompt].message_id)]_vars

C17_Witness ==
    /\ pc = "stream" /\ op \in StreamOps
    /\ lastEvent.role = "system" /\ lastEvent.text # <<>>
    /\ heap[user_prompt].parent_id = lastEvent.id
    /\ sink # <<>> /\ p = Len(sink)

\* C18: on a node map where the parent links from current_node reach a
\* parentless root, the walk ends after one iteration per node of that path,
\* each node visited once, and its list is the path without the root, from the
\* node below the root to current_node; on a node map where the parent links
\* never reach a parentless node the walk never ends.
\* The nodes from id upwards, as far as the parent links lead, at most n of them.
RECURSIVE Chain(_, _, _)
Chain(mapping, id, n) ==
    IF n = 0 THEN <<>>
    ELSE <<mapping[id]>> \o (IF mapping[id].parent = None THEN <<>>
                             ELSE Chain(mapping, mapping[id].parent, n - 1))

WalkChain == Chain(walk.mapping, walk.start, Cardinality(DOMAIN walk.mapping))
Rooted == WalkChain[Len(WalkChain)].parent = None
Reversed(seq) == [i \in 1..Len(seq) |-> seq[Len(seq) + 1 - i]]

C18_TreeWalk ==
    pc = "load" =>
        IF Rooted
        THEN LET inserted == IF walk.done THEN walk.visits - 1 ELSE walk.visits
             IN /\ walk.visits <= Len(WalkChain)
                /\ walk.done <=> walk.visits = Len(WalkChain)
                /\ walk.nodes = Reversed(SubSeq(WalkChain, 1, inserted))
                /\ walk.done =>
                       /\ Len(walk.nodes) = Len(WalkChain) - 1
                       /\ walk.nodes = Walk(walk.mapping, walk.start, <<>>)
                       /\ \A i \in 1..Len(walk.nodes) :
                              walk.nodes[i].parent =
                                  (IF i = 1 THEN WalkChain[Len(WalkChain)].id
                                            ELSE walk.nodes[i - 1].id)
                       /\ walk.nodes # <<>> =>
                              walk.nodes[Len(walk.nodes)].id = walk.start
        ELSE ~walk.done

C18_Witness ==
    /\ pc = "load" /\ Rooted /\ walk.done
    /\ Len(walk.nodes) = MaxNodes - 1
    /\ walk.visits = MaxNodes

\* C19: in every state the session reaches, edit_index is unset or is the
\* number of an entry of the history, so that the splice of __talk never
\* indexes outside the history.
C19_EditIndexInRange ==
    edit_index = None \/ edit_index \in 1..Len(user_prompts)

C19_Witness ==
    /\ op = "edit" /\ choice # None
    /\ Len(user_prompts) >= 2 /\ edit_index = Len(user_prompts)

\* C20 as claimed: no step of regenerate or continue changes the history: its
\* length and the text, parent_id and message_id of every entry stay as they
\* are, whatever events the reply stream carries.
RegenerateOrContinue == op' \in {"regenerate", "continue"}

C20_HistoryUntouched ==
    [][RegenerateOrContinue =>
          (/\ user_prompts' = user_prompts
           /\ \A i \in 1..Len(user_prompts) :
                  heap'[user_prompts[i]] = heap[user_prompts[i]])]_vars

\* C20: no step of regenerate or continue changes the length of the history
\* nor the text or the message_id of an entry; the parent_id of an entry
\* changes only when that entry is the active user prompt and a system event
\* arrives, and then to the message id of that event.
C20_HistoryFrame ==
    [][RegenerateOrContinue =>
          (/\ user_prompts' = user_prompts
           /\ \A i \in 1..Len(user_prompts) :
                  LET a == user_prompts[i]
                  IN /\ heap'[a].prompt = heap[a].prompt
                     /\ heap'[a].message_id = heap[a].message_id
                     /\ heap'[a].parent_id # heap[a].parent_id =>
                            /\ a = user_prompt
                            /\ EventStep /\ lastEvent'.role = "system"
                            /\ heap'[a].parent_id = lastEvent'.id)]_vars

C20_Witness ==
    /\ op \in {"regenerate", "continue"} /\ pc = "prompt"
    /\ systemId # None
    /\ user_prompts # <<>> /\ user_prompts[Len(user_prompts)] = user_prompt
    /\ heap[user_prompt].parent_id = systemId

====
